---- MODULE Spec2Model ----
(***************************************************************************)
(* Date Span Hours Counter (src/app.py).                                   *)
(*                                                                         *)
(* The program is a Streamlit script: every change of a widget re-runs the *)
(* whole script top to bottom, and the page that run renders is a function *)
(* of the widget values it reads.  The state is the widget values (ui) and *)
(* the page the last run rendered (out).  One action per widget: it sets   *)
(* the widget and re-runs the script.                                      *)
(*                                                                         *)
(* Dates are proleptic Gregorian ordinals (datetime.date.toordinal), so    *)
(* that date - date is integer subtraction and date.weekday() is           *)
(* (ordinal + 6) % 7.  Python floats are modelled as exact rationals       *)
(* [n, d] in lowest terms: the hour widgets step by 0.25, for which the    *)
(* sums and products of the PCA branch are exact in binary floating point; *)
(* the division by 7.0 of the CDPAS branch is modelled as exact.           *)
(***************************************************************************)
EXTENDS Integers, Sequences, FiniteSets, TLC

VARIABLES ui, out, cnt, conv

vars == <<ui, out, cnt, conv>>

(***************************************************************************)
(* Bounds of the model.                                                    *)
(***************************************************************************)
\* The latest To date is BaseDate + MaxDay.
MaxDay == 16
\* Longest span of the counting specification (SpecCount), in days.
CountMaxLen == 30
\* Largest base_hours (in quarter hours) and day_count of the conversion
\* specification (SpecConvert).
MaxBase == 8
MaxCount == 3

\* Monday 2024-01-01 as an ordinal: 105555 whole weeks after ordinal 1,
\* which is a Monday.
BaseDate == 7 * 105555 + 1
FirstStart == BaseDate - 1

\* From dates: Sunday 2023-12-31 and Monday 2024-01-01.  To dates: from the
\* day before the first From date to BaseDate + MaxDay.
StartDates == {FirstStart, BaseDate}
EndDates ==
  {FirstStart - 1, BaseDate, BaseDate + 6, BaseDate + 9, BaseDate + 13, BaseDate + MaxDay}

Weekdays == 0 .. 6

(***************************************************************************)
(* Rationals standing for Python floats.                                   *)
(***************************************************************************)
RECURSIVE GCD(_, _)
GCD(a, b) == IF b = 0 THEN a ELSE GCD(b, a % b)

Rat(n, d) == LET g == GCD(n, d) IN [n |-> n \div g, d |-> d \div g]
RInt(i) == [n |-> i, d |-> 1]
RAdd(x, y) == Rat(x.n * y.d + y.n * x.d, x.d * y.d)
RMul(x, y) == Rat(x.n * y.n, x.d * y.d)
RPos(x) == x.n > 0
\* f"{x:,.2f}": x rounded to hundredths, as a number of hundredths.
Fmt2(x) == (200 * x.n + x.d) \div (2 * x.d)

Zero == RInt(0)
Quarter == Rat(1, 4)
SixHours == RInt(6)
EightHours == RInt(8)

(***************************************************************************)
(* Helpers of the script.                                                  *)
(***************************************************************************)
weekday_labels == <<"Mon", "Tue", "Wed", "Thu", "Fri", "Sat", "Sun">>

Units == {"Hourly", "15 mins", "Per diem"}

\* datetime.date.weekday(): Monday is 0.
weekday(d) == (d + 6) % 7

\* dict.get(key, default)
Get(dict, key, default) == IF key \in DOMAIN dict THEN dict[key] ELSE default

\* sorted(S), for a set of integers.
RECURSIVE Sorted(_)
Sorted(S) ==
  IF S = {} THEN <<>>
  ELSE LET m == CHOOSE x \in S : \A y \in S : x <= y
       IN <<m>> \o Sorted(S \ {m})

\* sum(...) over a sequence of ints, and over a sequence of floats.
RECURSIVE SumInt(_)
SumInt(s) == IF s = <<>> THEN 0 ELSE Head(s) + SumInt(Tail(s))

RECURSIVE SumRat(_)
SumRat(s) == IF s = <<>> THEN Zero ELSE RAdd(Head(s), SumRat(Tail(s)))

\* The values of a dict, in key order.
Values(dict) == LET ks == Sorted(DOMAIN dict) IN [k \in 1 .. Len(ks) |-> dict[ks[k]]]

daterange_end_excluded(start, end) ==
  IF start >= end THEN <<>> ELSE [k \in 1 .. (end - start) |-> start + (k - 1)]

daterange_inclusive(start, end) ==
  IF start > end THEN <<>> ELSE [k \in 1 .. (end - start + 1) |-> start + (k - 1)]

convert_total_no_fallback(base_hours, day_count, unit) ==
  IF unit = "Hourly" THEN base_hours
  ELSE IF unit = "15 mins" THEN RMul(base_hours, RInt(4))
  ELSE IF unit = "Per diem" THEN RInt(day_count)
  ELSE Zero

convert_total_perdiem_from_hours(base_hours, day_count, unit) ==
  IF unit = "Hourly" THEN base_hours
  ELSE IF unit = "15 mins" THEN RMul(base_hours, RInt(4))
  ELSE IF unit = "Per diem" THEN RMul(base_hours, Rat(1, 8))
  ELSE base_hours

convert_total(base_hours, day_count, unit) ==
  IF unit = "Hourly" THEN base_hours
  ELSE IF unit = "15 mins" THEN RMul(base_hours, RInt(4))
  ELSE IF unit = "Per diem" THEN RInt(day_count)
  ELSE base_hours

count_total_days(start, end) == (end - start) + 1

count_weekday_from_monday(start, end, target_wd) ==
  LET total_days == count_total_days(start, end)
      full_weeks == total_days \div 7
      remainder == total_days % 7
  IN full_weeks + Cardinality({i \in 0 .. (remainder - 1) : i % 7 = target_wd})

count_weekday(start, end, target_wd) ==
  LET total_days == count_total_days(start, end)
      full_weeks == total_days \div 7
      remainder == total_days % 7
      start_wd == weekday(start)
  IN full_weeks
       + Cardinality({i \in 0 .. (remainder - 1) : (start_wd + i) % 7 = target_wd})

monday_of_week_is_day(d) == d

monday_of_week(d) == d - weekday(d)

week_index(d, anchor_monday) == ((d - anchor_monday) \div 7) % 2

bucket_of(d, anchor_monday) == IF week_index(d, anchor_monday) = 0 THEN "A" ELSE "B"

ZeroCounts == [b \in {"A", "B"} |-> [i \in Weekdays |-> 0]]

\* The loop over daterange_inclusive that increments counts[bucket][d.weekday()].
RECURSIVE bucket_loop(_, _, _)
bucket_loop(days, anchor_monday, counts) ==
  IF days = <<>> THEN counts
  ELSE LET d == Head(days)
           bucket == bucket_of(d, anchor_monday)
       IN bucket_loop(Tail(days), anchor_monday,
                      [counts EXCEPT ![bucket][weekday(d)] = @ + 1])

bucket_counts(start, end) ==
  bucket_loop(daterange_inclusive(start, end), monday_of_week(start), ZeroCounts)

(***************************************************************************)
(* The widgets.  ui holds the value of every widget as the last run read   *)
(* it; a widget that run did not create is held at its value= default,     *)
(* with which it is created when its branch next runs.  The per-weekday    *)
(* hour entries are kept for every weekday, selected or not.               *)
(***************************************************************************)
SelChoices == {{}, 0 .. 4, 0 .. 2, {3, 6}}
HourVals == {Quarter, EightHours}
DefaultEach == [i \in Weekdays |-> IF i < 5 THEN EightHours ELSE Zero]
MonWedSix == [i \in Weekdays |-> IF i < 3 THEN SixHours ELSE EightHours]
EachMaps == {DefaultEach, MonWedSix}
HpwVals == {Zero, RInt(40), RInt(168), Rat(151, 4)}

SingleDefaults ==
  [selected_weekdays |-> 0 .. 4, same_hours |-> TRUE, hrs |-> EightHours,
   hrs_each |-> DefaultEach]

AltDefaults ==
  [wds_A |-> 0 .. 4, same_A |-> TRUE, h_A |-> EightHours, hrs_A_each |-> DefaultEach,
   wds_B |-> 0 .. 4, same_B |-> TRUE, h_B |-> EightHours, hrs_B_each |-> DefaultEach]

\* r with the fields of s set as in s.
Override(r, s) == [f \in DOMAIN r |-> IF f \in DOMAIN s THEN s[f] ELSE r[f]]

\* use_alt_weeks = False; if not cdpas_mode: use_alt_weeks = st.checkbox(...)
use_alt_weeks(w) == IF ~w.cdpas_mode THEN w.alt_weeks_chk ELSE FALSE

(***************************************************************************)
(* single_pattern_ui: the selection, the hours dict over the selected      *)
(* weekdays, and the closed-form count of each selected weekday.           *)
(***************************************************************************)
\* hrs_A / hrs_B / weekday_hours: one entry per selected weekday.
hours_dict(wds, same, h, each) ==
  [wd \in wds |-> IF same THEN h ELSE each[wd]]

single_pattern_ui_counts_all(w) ==
  LET selected_weekdays == w.selected_weekdays IN
  IF selected_weekdays = {}
  THEN [stopped |-> TRUE, info |-> "Select at least one weekday."]
  ELSE [stopped |-> FALSE,
        selected_counts |->
          [wd \in Weekdays |-> count_weekday(w.start_date, w.end_date, wd)],
        weekday_hours |->
          [wd \in Weekdays |-> IF w.same_hours THEN w.hrs ELSE w.hrs_each[wd]]]

single_pattern_ui(w) ==
  LET selected_weekdays == w.selected_weekdays IN
  IF selected_weekdays = {}
  THEN [stopped |-> TRUE, info |-> "Select at least one weekday."]
  ELSE [stopped |-> FALSE,
        selected_counts |->
          [wd \in selected_weekdays |-> count_weekday(w.start_date, w.end_date, wd)],
        weekday_hours |->
          hours_dict(selected_weekdays, w.same_hours, w.hrs, w.hrs_each)]

(***************************************************************************)
(* alternating_pattern_ui: the day-by-day bucket counts and the hours,     *)
(* both zeroed for the weekdays a pattern does not select.                 *)
(***************************************************************************)
gate_counts_not_zeroed(counts, hours, wds_A, wds_B) ==
  [counts |-> counts,
   hours |->
     [b \in {"A", "B"} |->
        [i \in Weekdays |->
           IF i \notin (IF b = "A" THEN wds_A ELSE wds_B) THEN Zero ELSE hours[b][i]]]]

\* for i in range(7): if i not in wds_A: counts["A"][i] = 0; hours["A"][i] = 0.0 ...
gate(counts, hours, wds_A, wds_B) ==
  LET sel(b) == IF b = "A" THEN wds_A ELSE wds_B IN
  [counts |->
     [b \in {"A", "B"} |->
        [i \in Weekdays |-> IF i \notin sel(b) THEN 0 ELSE counts[b][i]]],
   hours |->
     [b \in {"A", "B"} |->
        [i \in Weekdays |-> IF i \notin sel(b) THEN Zero ELSE hours[b][i]]]]

alternating_pattern_ui(w) ==
  LET wds_A == w.wds_A
      hrs_A == hours_dict(wds_A, w.same_A, w.h_A, w.hrs_A_each)
      wds_B == w.wds_B
      hrs_B == hours_dict(wds_B, w.same_B, w.h_B, w.hrs_B_each)
  IN
  IF wds_A = {} /\ wds_B = {}
  THEN [stopped |-> TRUE, info |-> "Select at least one weekday in Week A or Week B."]
  ELSE
    LET counts == bucket_counts(w.start_date, w.end_date)
        hours == [b \in {"A", "B"} |->
                    [i \in Weekdays |->
                       Get(IF b = "A" THEN hrs_A ELSE hrs_B, i, Zero)]]
        g == gate(counts, hours, wds_A, wds_B)
    IN [stopped |-> FALSE, counts |-> g.counts, hours |-> g.hours]

(***************************************************************************)
(* Compute & Display.  A page is what one run of the script renders: the   *)
(* messages, and the metrics and breakdown rows of the branch that ran.    *)
(***************************************************************************)
\* st.error(...) / st.info(...) followed by st.stop(): nothing after it runs.
StoppedPage(level, text) ==
  [kind |-> "stopped", messages |-> <<[level |-> level, text |-> text]>>]

weeks_whole_only(total_calendar_days) == RInt(total_calendar_days \div 7)

\* weeks_in_span = total_calendar_days / 7.0
weeks_in_span(total_calendar_days) == Rat(total_calendar_days, 7)

CdpasPage(w) ==
  LET hours_per_week == w.hours_per_week
      total_calendar_days == (w.end_date - w.start_date) + 1
      weeks == weeks_in_span(total_calendar_days)
      total_hours == RMul(hours_per_week, weeks)
      total_15min_units == RMul(total_hours, RInt(4))
  IN [kind |-> "cdpas", messages |-> <<>>,
      total_calendar_days |-> total_calendar_days,
      weeks_in_span |-> weeks,
      total_hours |-> total_hours,
      total_15min_units |-> total_15min_units,
      shown_weeks |-> Fmt2(weeks),
      shown_total_hours |-> Fmt2(total_hours),
      shown_total_15min_units |-> Fmt2(total_15min_units)]

SinglePage(w) ==
  LET sp == single_pattern_ui(w) IN
  IF sp.stopped THEN StoppedPage("info", sp.info)
  ELSE
    LET selected_counts == sp.selected_counts
        weekday_hours == sp.weekday_hours
        unit_option == w.unit_option
        keys == Sorted(DOMAIN selected_counts)
        total_calendar_days == (w.end_date - w.start_date) + 1
        total_matching_days == SumInt(Values(selected_counts))
        base_hours ==
          SumRat([k \in 1 .. Len(keys) |->
                    RMul(RInt(selected_counts[keys[k]]),
                         Get(weekday_hours, keys[k], Zero))])
        final_total == convert_total(base_hours, total_matching_days, unit_option)
        rows ==
          [k \in 1 .. Len(keys) |->
             LET wd == keys[k]
                 day_count == selected_counts[wd]
                 base == RMul(RInt(day_count), Get(weekday_hours, wd, Zero))
             IN [Weekday |-> weekday_labels[wd + 1],
                 Count |-> day_count,
                 Hours |-> Get(weekday_hours, wd, Zero),
                 Converted |-> convert_total(base, day_count, unit_option)]]
    IN [kind |-> "single", messages |-> <<>>,
        total_calendar_days |-> total_calendar_days,
        total_matching_days |-> total_matching_days,
        base_hours |-> base_hours,
        final_total |-> final_total,
        rows |-> rows]

keep_rows_with_hours(rows) == SelectSeq(rows, LAMBDA r : RPos(r.Hours))

\* df[(df["Count in range"] > 0) | (df["Converted total"] > 0)]
keep_nonzero_rows(rows) == SelectSeq(rows, LAMBDA r : r.Count > 0 \/ RPos(r.Converted))

AltPage(w) ==
  LET ap == alternating_pattern_ui(w) IN
  IF ap.stopped THEN StoppedPage("info", ap.info)
  ELSE
    LET counts_AB == ap.counts
        hours_AB == ap.hours
        unit_option == w.unit_option
        total_calendar_days == (w.end_date - w.start_date) + 1
        total_days_A == SumInt([k \in 1 .. 7 |-> counts_AB["A"][k - 1]])
        total_days_B == SumInt([k \in 1 .. 7 |-> counts_AB["B"][k - 1]])
        total_matching_days == total_days_A + total_days_B
        base_of(b) ==
          SumRat([k \in 1 .. 7 |->
                    RMul(RInt(counts_AB[b][k - 1]), Get(hours_AB[b], k - 1, Zero))])
        base_hours_A == base_of("A")
        base_hours_B == base_of("B")
        base_hours_total == RAdd(base_hours_A, base_hours_B)
        final_total_A == convert_total(base_hours_A, total_days_A, unit_option)
        final_total_B == convert_total(base_hours_B, total_days_B, unit_option)
        final_total == RAdd(final_total_A, final_total_B)
        row(bucket, wd) ==
          LET day_count == counts_AB[bucket][wd]
              base == RMul(RInt(day_count), Get(hours_AB[bucket], wd, Zero))
          IN [Pattern |-> bucket,
              Weekday |-> weekday_labels[wd + 1],
              Count |-> day_count,
              Hours |-> Get(hours_AB[bucket], wd, Zero),
              Converted |-> convert_total(base, day_count, unit_option)]
        rows ==
          [k \in 1 .. 14 |-> IF k <= 7 THEN row("A", k - 1) ELSE row("B", k - 8)]
    IN [kind |-> "alt", messages |-> <<>>,
        counts_AB |-> counts_AB,
        hours_AB |-> hours_AB,
        total_calendar_days |-> total_calendar_days,
        total_days_A |-> total_days_A,
        total_days_B |-> total_days_B,
        total_matching_days |-> total_matching_days,
        base_hours_A |-> base_hours_A,
        base_hours_B |-> base_hours_B,
        base_hours_total |-> base_hours_total,
        final_total_A |-> final_total_A,
        final_total_B |-> final_total_B,
        final_total |-> final_total,
        all_rows |-> rows,
        rows |-> keep_nonzero_rows(rows)]

Script_dates_unchecked(w) ==
  IF w.cdpas_mode THEN CdpasPage(w)
  ELSE IF ~use_alt_weeks(w) THEN SinglePage(w)
  ELSE AltPage(w)

\* One run of the script, top to bottom.
Script(w) ==
  IF w.start_date > w.end_date
  THEN StoppedPage("error", "'From date' must be on or before 'To date'.")
  ELSE IF w.cdpas_mode THEN CdpasPage(w)
  ELSE IF ~use_alt_weeks(w) THEN SinglePage(w)
  ELSE AltPage(w)

(***************************************************************************)
(* The session: the widgets as first rendered, and one action per widget.  *)
(* A widget can be changed only if the last run rendered it, and a run is  *)
(* triggered by a widget taking a new value.  Changing a                   *)
(* checkbox that selects a branch (CDPAS, alternating weeks, same hours)   *)
(* leaves the widgets of the branch that no longer runs at their defaults. *)
(***************************************************************************)
DefaultUi ==
  Override(
    [start_date |-> BaseDate, end_date |-> BaseDate,
     cdpas_mode |-> FALSE, alt_weeks_chk |-> FALSE,
     unit_option |-> "Hourly", hours_per_week |-> RInt(40),
     selected_weekdays |-> {}, same_hours |-> TRUE, hrs |-> Zero, hrs_each |-> DefaultEach,
     wds_A |-> {}, same_A |-> TRUE, h_A |-> Zero, hrs_A_each |-> DefaultEach,
     wds_B |-> {}, same_B |-> TRUE, h_B |-> Zero, hrs_B_each |-> DefaultEach],
    Override(SingleDefaults @@ AltDefaults, <<>>))

CntIdle == [start |-> BaseDate, end |-> BaseDate - 1]
ConvIdle == [unit |-> "Hourly", day_count |-> 0]

DatesOk(w) == w.start_date <= w.end_date
PcaRendered(w) == DatesOk(w) /\ ~w.cdpas_mode
SingleRendered(w) == PcaRendered(w) /\ ~use_alt_weeks(w)
SingleHoursRendered(w) == SingleRendered(w) /\ w.selected_weekdays # {}
AltRendered(w) == PcaRendered(w) /\ use_alt_weeks(w)

\* The widget change is made and the script runs again.
Rerun(w) == ui' = w /\ out' = Script(w) /\ UNCHANGED <<cnt, conv>>

\* value=date.today().replace(day=1) and value=date.today(): the session opens
\* on some day of the month that starts at BaseDate.
Init ==
  /\ \E today \in {d \in EndDates : d >= BaseDate} :
       ui = [DefaultUi EXCEPT !.end_date = today]
  /\ out = Script(ui)
  /\ cnt = CntIdle
  /\ conv = ConvIdle

SetStartDate ==
  \E d \in StartDates \ {ui.start_date} : Rerun([ui EXCEPT !.start_date = d])

SetEndDate ==
  \E d \in EndDates \ {ui.end_date} : Rerun([ui EXCEPT !.end_date = d])

SetCdpasMode ==
  /\ DatesOk(ui)
  /\ \E b \in BOOLEAN \ {ui.cdpas_mode} :
       Rerun(IF b
             THEN Override([ui EXCEPT !.cdpas_mode = TRUE, !.alt_weeks_chk = FALSE,
                                      !.unit_option = "Hourly"],
                           SingleDefaults @@ AltDefaults)
             ELSE [ui EXCEPT !.cdpas_mode = FALSE, !.hours_per_week = RInt(40)])

SetUseAltWeeks ==
  /\ PcaRendered(ui)
  /\ \E b \in BOOLEAN \ {ui.alt_weeks_chk} :
       Rerun(Override([ui EXCEPT !.alt_weeks_chk = b],
                      IF b THEN SingleDefaults ELSE AltDefaults))

SetUnitOption ==
  /\ PcaRendered(ui)
  /\ \E u \in Units \ {ui.unit_option} : Rerun([ui EXCEPT !.unit_option = u])

SetHoursPerWeek ==
  /\ DatesOk(ui) /\ ui.cdpas_mode
  /\ \E h \in HpwVals \ {ui.hours_per_week} : Rerun([ui EXCEPT !.hours_per_week = h])

SetSelectedWeekdays ==
  /\ SingleRendered(ui)
  /\ \E S \in SelChoices \ {ui.selected_weekdays} : Rerun([ui EXCEPT !.selected_weekdays = S])

SetSameHours ==
  /\ SingleHoursRendered(ui)
  /\ \E b \in BOOLEAN \ {ui.same_hours} :
       Rerun(IF b THEN [ui EXCEPT !.same_hours = TRUE, !.hrs_each = DefaultEach]
                  ELSE [ui EXCEPT !.same_hours = FALSE, !.hrs = EightHours])

SetHrs ==
  /\ SingleHoursRendered(ui) /\ ui.same_hours
  /\ \E h \in HourVals \ {ui.hrs} : Rerun([ui EXCEPT !.hrs = h])

SetHrsEach ==
  /\ SingleHoursRendered(ui) /\ ~ui.same_hours
  /\ \E m \in EachMaps \ {ui.hrs_each} : Rerun([ui EXCEPT !.hrs_each = m])

SetWdsA ==
  /\ AltRendered(ui)
  /\ \E S \in SelChoices \ {ui.wds_A} : Rerun([ui EXCEPT !.wds_A = S])

SetSameA ==
  /\ AltRendered(ui)
  /\ \E b \in BOOLEAN \ {ui.same_A} :
       Rerun(IF b THEN [ui EXCEPT !.same_A = TRUE, !.hrs_A_each = DefaultEach]
                  ELSE [ui EXCEPT !.same_A = FALSE, !.h_A = EightHours])

SetHA ==
  /\ AltRendered(ui) /\ ui.same_A
  /\ \E h \in HourVals \ {ui.h_A} : Rerun([ui EXCEPT !.h_A = h])

SetHrsAEach ==
  /\ AltRendered(ui) /\ ~ui.same_A
  /\ \E m \in EachMaps \ {ui.hrs_A_each} : Rerun([ui EXCEPT !.hrs_A_each = m])

SetWdsB ==
  /\ AltRendered(ui)
  /\ \E S \in SelChoices \ {ui.wds_B} : Rerun([ui EXCEPT !.wds_B = S])

SetSameB ==
  /\ AltRendered(ui)
  /\ \E b \in BOOLEAN \ {ui.same_B} :
       Rerun(IF b THEN [ui EXCEPT !.same_B = TRUE, !.hrs_B_each = DefaultEach]
                  ELSE [ui EXCEPT !.same_B = FALSE, !.h_B = EightHours])

SetHB ==
  /\ AltRendered(ui) /\ ui.same_B
  /\ \E h \in HourVals \ {ui.h_B} : Rerun([ui EXCEPT !.h_B = h])

SetHrsBEach ==
  /\ AltRendered(ui) /\ ~ui.same_B
  /\ \E m \in EachMaps \ {ui.hrs_B_each} : Rerun([ui EXCEPT !.hrs_B_each = m])

Next ==
  \/ SetStartDate
  \/ SetEndDate
  \/ SetCdpasMode
  \/ SetUseAltWeeks
  \/ SetUnitOption
  \/ SetHoursPerWeek
  \/ SetSelectedWeekdays
  \/ SetSameHours
  \/ SetHrs
  \/ SetHrsEach
  \/ SetWdsA
  \/ SetSameA
  \/ SetHA
  \/ SetHrsAEach
  \/ SetWdsB
  \/ SetSameB
  \/ SetHB
  \/ SetHrsBEach

Spec == Init /\ [][Next]_vars

(***************************************************************************)
(* The two counting paths as pure functions of the span: the closed form   *)
(* of single_pattern_ui and the day-by-day bucket loop of                  *)
(* alternating_pattern_ui, run on spans of 1 .. CountMaxLen days starting  *)
(* on each of the seven weekdays.                                          *)
(***************************************************************************)
CountStarts == BaseDate .. (BaseDate + 6)

CountRun(start, end) ==
  LET days == daterange_inclusive(start, end)
      anchor_monday == monday_of_week(start)
  IN [start |-> start, end |-> end,
      total_days |-> count_total_days(start, end),
      flat |-> [wd \in Weekdays |-> count_weekday(start, end, wd)],
      buckets |-> [k \in 1 .. Len(days) |-> bucket_of(days[k], anchor_monday)],
      counts |-> bucket_counts(start, end)]

InitCount ==
  /\ ui = DefaultUi
  /\ out = Script(ui)
  /\ \E s \in CountStarts, n \in 1 .. CountMaxLen : cnt = CountRun(s, s + n - 1)
  /\ conv = ConvIdle

CountSpan ==
  /\ \E s \in CountStarts, n \in 1 .. CountMaxLen : cnt' = CountRun(s, s + n - 1)
  /\ UNCHANGED <<ui, out, conv>>

NextCount == CountSpan

SpecCount == InitCount /\ [][NextCount]_vars

(***************************************************************************)
(* convert_total as a pure function, called with the three units of the    *)
(* selectbox and with units outside them.  The function has no raise       *)
(* statement: every path returns a number.                                 *)
(***************************************************************************)
ConvUnits == Units \cup {"Weekly", ""}
ConvBases == {Rat(q, 4) : q \in 0 .. MaxBase}

ConvertCall(base_hours, day_count, unit) ==
  [base_hours |-> base_hours, day_count |-> day_count, unit |-> unit,
   raised |-> "none", value |-> convert_total(base_hours, day_count, unit)]

InitConvert ==
  /\ ui = DefaultUi
  /\ out = Script(ui)
  /\ cnt = CntIdle
  /\ \E b \in ConvBases, d \in 0 .. MaxCount, u \in ConvUnits : conv = ConvertCall(b, d, u)

Convert ==
  /\ \E b \in ConvBases, d \in 0 .. MaxCount, u \in ConvUnits : conv' = ConvertCall(b, d, u)
  /\ UNCHANGED <<ui, out, cnt>>

NextConvert == Convert

SpecConvert == InitConvert /\ [][NextConvert]_vars

(***************************************************************************)
(* Reference definitions the properties are stated with: the days of a     *)
(* span, counted one by one, and the week of a day told by the Mondays     *)
(* passed since the From date.                                             *)
(***************************************************************************)
NaiveCount(start, end, wd) == Cardinality({d \in start .. end : weekday(d) = wd})

MondaysPassed(start, d) == Cardinality({x \in (start + 1) .. d : weekday(x) = 0})

WeekOf(start, d) == IF MondaysPassed(start, d) % 2 = 0 THEN "A" ELSE "B"

\* The days of the span that fall in bucket b on a weekday of the selection wds.
SelectedDays(start, end, b, wds) ==
  Cardinality({d \in start .. end : WeekOf(start, d) = b /\ weekday(d) \in wds})

(***************************************************************************)
(* C1  Closed-form flat count = day-by-day enumeration.                    *)
(* For every start weekday, every span of 1 .. CountMaxLen days and every  *)
(* weekday w, count_weekday(start, end, w) equals the number of days d of  *)
(* start .. end with d.weekday() = w, and the seven counts sum to the      *)
(* inclusive number of days.                                               *)
(***************************************************************************)
C1_FlatCountEqualsEnumeration ==
  /\ \A wd \in Weekdays : cnt.flat[wd] = NaiveCount(cnt.start, cnt.end, wd)
  /\ SumInt([k \in 1 .. 7 |-> cnt.flat[k - 1]]) = cnt.total_days
  /\ cnt.total_days = Len(daterange_inclusive(cnt.start, cnt.end))

\* 24 days from a Friday: three full weeks and a remainder of Fri, Sat, Sun.
C1_Witness ==
  /\ weekday(cnt.start) = 4
  /\ cnt.total_days = 24
  /\ cnt.flat[4] = 4 /\ cnt.flat[6] = 4 /\ cnt.flat[0] = 3 /\ cnt.flat[3] = 3

(***************************************************************************)
(* C3  Bucket by week parity from the Monday of the From date's week.      *)
(* The From date is in bucket A; the bucket of a day differs from that of  *)
(* the day before exactly when the day is a Monday (so the days of one     *)
(* Mon-Sun week share a bucket and the bucket flips at every Monday); the  *)
(* loop's counts are the counts of those per-day buckets; a 1-day span     *)
(* puts its one day in bucket A and nothing in bucket B.                   *)
(***************************************************************************)
C3_BucketByWeekParity ==
  LET days == daterange_inclusive(cnt.start, cnt.end)
      n == Len(days)
  IN /\ n = Len(cnt.buckets)
     /\ cnt.buckets[1] = "A"
     /\ \A k \in 2 .. n :
          (cnt.buckets[k] # cnt.buckets[k - 1]) <=> (weekday(days[k]) = 0)
     /\ \A k \in 1 .. n : cnt.buckets[k] = WeekOf(cnt.start, days[k])
     /\ \A b \in {"A", "B"}, wd \in Weekdays :
          cnt.counts[b][wd] =
            Cardinality({k \in 1 .. n : cnt.buckets[k] = b /\ weekday(days[k]) = wd})
     /\ n = 1 =>
          /\ \A wd \in Weekdays : cnt.counts["B"][wd] = 0
          /\ \A wd \in Weekdays :
               cnt.counts["A"][wd] = IF wd = weekday(cnt.start) THEN 1 ELSE 0

\* A span from a Thursday across two Mondays: A, then B, then A again.
C3_Witness ==
  /\ weekday(cnt.start) = 3
  /\ cnt.total_days = 12
  /\ cnt.buckets[4] = "A" /\ cnt.buckets[5] = "B" /\ cnt.buckets[12] = "A"
  /\ cnt.counts["B"][0] = 1 /\ cnt.counts["A"][0] = 1

(***************************************************************************)
(* C6  convert_total and units outside the selectbox.                      *)
(* As claimed: for a unit outside Hourly / 15 mins / Per diem the call     *)
(* fails with UnknownUnitError and returns no number.                      *)
(***************************************************************************)
C6_UnknownUnitFails ==
  conv.unit \notin Units => conv.raised = "UnknownUnitError"

(***************************************************************************)
(* C6 as amended: the call never fails; a unit outside the three is        *)
(* treated like Hourly and base_hours is returned unchanged; the three     *)
(* units give base_hours, base_hours * 4 and the day count.                *)
(***************************************************************************)
C6_UnknownUnitReturnsBaseHours ==
  /\ conv.raised = "none"
  /\ conv.unit \notin Units => conv.value = conv.base_hours
  /\ conv.unit = "Hourly" => conv.value = conv.base_hours
  /\ conv.unit = "15 mins" => conv.value = RMul(RInt(4), conv.base_hours)
  /\ conv.unit = "Per diem" => conv.value = RInt(conv.day_count)

C6_Witness ==
  /\ conv.unit = "Weekly"
  /\ conv.base_hours = Rat(5, 4)
  /\ conv.day_count = 3
  /\ conv.value = Rat(5, 4)

(***************************************************************************)
(* Shorthands for the page of the last run.                                *)
(***************************************************************************)
Span == (ui.end_date - ui.start_date) + 1
SelOf(b) == IF b = "A" THEN ui.wds_A ELSE ui.wds_B
Converted(rows) == [k \in 1 .. Len(rows) |-> rows[k].Converted]
\* The hours entered for a weekday of a pattern (same hours for all, or each).
EnteredSingle(wd) == IF ui.same_hours THEN ui.hrs ELSE ui.hrs_each[wd]
EnteredAlt(b, wd) ==
  IF b = "A" THEN (IF ui.same_A THEN ui.h_A ELSE ui.hrs_A_each[wd])
  ELSE (IF ui.same_B THEN ui.h_B ELSE ui.hrs_B_each[wd])
\* Hour entries that could stand in a per-weekday widget.
OtherEntries == {Zero, Quarter, RInt(24)}

(***************************************************************************)
(* C2  Bucket totals in alternating mode.                                  *)
(* As claimed: total_days_A + total_days_B = total_calendar_days for every *)
(* span and every pair of selections that are not both empty.              *)
(***************************************************************************)
C2_BucketTotalsSumToCalendarDays ==
  out.kind = "alt" => out.total_days_A + out.total_days_B = out.total_calendar_days

(***************************************************************************)
(* C2 as amended: the day-by-day loop puts every day of the span in        *)
(* exactly one bucket (its raw counts sum to total_calendar_days), but the *)
(* counts returned are zeroed for the weekdays a pattern does not select,  *)
(* so total_days_A and total_days_B are the numbers of days of the span    *)
(* that fall in Week A / Week B on a selected weekday of that week's       *)
(* pattern; their sum is at most total_calendar_days, and equals it only   *)
(* when every day of the span is on a selected weekday of its bucket.      *)
(***************************************************************************)
C2_BucketTotalsCountSelectedDays ==
  out.kind = "alt" =>
    LET raw == bucket_counts(ui.start_date, ui.end_date)
        unselected ==
          {d \in ui.start_date .. ui.end_date :
             weekday(d) \notin SelOf(WeekOf(ui.start_date, d))}
    IN /\ out.total_calendar_days = Span
       /\ SumInt([k \in 1 .. 14 |->
                    IF k <= 7 THEN raw["A"][k - 1] ELSE raw["B"][k - 8]]) = Span
       /\ out.total_days_A = SelectedDays(ui.start_date, ui.end_date, "A", ui.wds_A)
       /\ out.total_days_B = SelectedDays(ui.start_date, ui.end_date, "B", ui.wds_B)
       /\ out.total_days_A + out.total_days_B = Span - Cardinality(unselected)

\* Mon 2024-01-01 .. Sun 2024-01-14, Week A Mon-Fri, Week B Mon-Wed: 5 + 3 of 14.
C2_Witness ==
  /\ out.kind = "alt"
  /\ ui.start_date = BaseDate /\ ui.end_date = BaseDate + 13
  /\ ui.wds_A = 0 .. 4 /\ ui.wds_B = 0 .. 2
  /\ out.total_days_A = 5 /\ out.total_days_B = 3 /\ out.total_calendar_days = 14

(***************************************************************************)
(* C4  Selection is the gate.                                              *)
(* A weekday outside the selection of a pattern has no row, count or hours *)
(* in the result of that pattern: the matching days are the days on        *)
(* selected weekdays, base hours are the sum over the selected weekdays of *)
(* count times entered hours, and the page is the same whatever is entered *)
(* for the hours of the unselected weekdays.                               *)
(***************************************************************************)
C4_SelectionGates ==
  /\ out.kind = "single" =>
       LET sel == ui.selected_weekdays
           keys == Sorted(sel)
       IN /\ Len(out.rows) = Cardinality(sel)
          /\ out.total_matching_days =
               Cardinality({d \in ui.start_date .. ui.end_date : weekday(d) \in sel})
          /\ out.base_hours =
               SumRat([k \in 1 .. Len(keys) |->
                         RMul(RInt(NaiveCount(ui.start_date, ui.end_date, keys[k])),
                              EnteredSingle(keys[k]))])
          /\ \A v \in OtherEntries :
               Script([ui EXCEPT !.hrs_each =
                         [i \in Weekdays |-> IF i \in sel THEN ui.hrs_each[i] ELSE v]]) = out
  /\ out.kind = "alt" =>
       /\ \A b \in {"A", "B"} : \A i \in Weekdays \ SelOf(b) :
            out.counts_AB[b][i] = 0 /\ out.hours_AB[b][i] = Zero
       /\ \A b \in {"A", "B"} : \A i \in SelOf(b) :
            out.hours_AB[b][i] = EnteredAlt(b, i)
       /\ out.total_matching_days =
            Cardinality({d \in ui.start_date .. ui.end_date :
                           weekday(d) \in SelOf(WeekOf(ui.start_date, d))})
       /\ \A v \in OtherEntries :
            Script([ui EXCEPT
                      !.hrs_A_each =
                        [i \in Weekdays |-> IF i \in ui.wds_A THEN ui.hrs_A_each[i] ELSE v],
                      !.hrs_B_each =
                        [i \in Weekdays |-> IF i \in ui.wds_B THEN ui.hrs_B_each[i] ELSE v]])
              = out

\* Single pattern Mon-Fri with 8 hours entered for Saturday and Sunday, over two
\* full weeks: 10 matching days and base hours that leave the weekend out.
C4_Witness ==
  /\ out.kind = "single"
  /\ ui.selected_weekdays = 0 .. 4
  /\ ~ui.same_hours /\ ui.hrs_each = MonWedSix
  /\ ui.start_date = BaseDate /\ ui.end_date = BaseDate + 13
  /\ out.total_matching_days = 10
  /\ out.base_hours = RInt(2 * (3 * 6 + 2 * 8))

(***************************************************************************)
(* C5  Per-bucket conversion, then the sum.                                *)
(* In alternating mode final_total is the sum of the two buckets'          *)
(* converted totals: base hours A + B for Hourly, four times that for      *)
(* 15 mins (the same as converting the combined base hours), and for       *)
(* Per diem the number of matching days of the two buckets, whatever the   *)
(* hours entered.                                                          *)
(***************************************************************************)
C5_AlternatingTotalByUnit ==
  out.kind = "alt" =>
    LET hoursSum == RAdd(out.base_hours_A, out.base_hours_B)
        daysSum == out.total_days_A + out.total_days_B
        u == ui.unit_option
    IN /\ out.final_total = RAdd(out.final_total_A, out.final_total_B)
       /\ u = "Hourly" =>
            /\ out.final_total_A = out.base_hours_A
            /\ out.final_total_B = out.base_hours_B
            /\ out.final_total = hoursSum
       /\ u = "15 mins" =>
            /\ out.final_total_A = RMul(RInt(4), out.base_hours_A)
            /\ out.final_total_B = RMul(RInt(4), out.base_hours_B)
            /\ out.final_total = RMul(RInt(4), hoursSum)
       /\ u = "Per diem" =>
            /\ out.final_total_A = RInt(out.total_days_A)
            /\ out.final_total_B = RInt(out.total_days_B)
            /\ out.final_total = RInt(daysSum)
            /\ daysSum =
                 SelectedDays(ui.start_date, ui.end_date, "A", ui.wds_A)
                   + SelectedDays(ui.start_date, ui.end_date, "B", ui.wds_B)

\* Per diem over two weeks, Week A Mon-Fri at 8 hours, Week B Mon-Wed at 6:
\* 58 base hours and a total of 8 per-diems.
C5_Witness ==
  /\ out.kind = "alt" /\ ui.unit_option = "Per diem"
  /\ ui.start_date = BaseDate /\ ui.end_date = BaseDate + 13
  /\ out.base_hours_A = RInt(40) /\ out.base_hours_B = RInt(18)
  /\ out.final_total = RInt(8)

(***************************************************************************)
(* C7  Fail fast, no partial result.                                       *)
(* When the From date is after the To date (in any mode), or no weekday is *)
(* selected in single-pattern mode, or none in Week A and none in Week B   *)
(* in alternating mode, the run stops with exactly one message and renders *)
(* no totals and no breakdown; otherwise it renders the full result of its *)
(* mode and no message (in alternating mode one of A / B may be empty).    *)
(***************************************************************************)
C7_FailFastOrFullResult ==
  LET mode == IF ui.cdpas_mode THEN "cdpas"
              ELSE IF use_alt_weeks(ui) THEN "alt" ELSE "single"
      badRange == ui.start_date > ui.end_date
      noWeekday ==
        \/ mode = "single" /\ ui.selected_weekdays = {}
        \/ mode = "alt" /\ ui.wds_A = {} /\ ui.wds_B = {}
  IN IF badRange \/ noWeekday
     THEN /\ out.kind = "stopped"
          /\ Len(out.messages) = 1
          /\ out.messages[1].level = (IF badRange THEN "error" ELSE "info")
          /\ DOMAIN out = {"kind", "messages"}
     ELSE /\ out.kind = mode
          /\ out.messages = <<>>
          /\ out.total_calendar_days = Span
          /\ mode = "cdpas" => {"total_hours", "total_15min_units"} \subseteq DOMAIN out
          /\ mode = "single" =>
               /\ {"total_matching_days", "final_total"} \subseteq DOMAIN out
               /\ Len(out.rows) = Cardinality(ui.selected_weekdays)
          /\ mode = "alt" =>
               /\ {"total_days_A", "total_days_B", "final_total"} \subseteq DOMAIN out
               /\ Len(out.all_rows) = 14

\* CDPAS mode with the From date after the To date: one error, nothing else.
C7_Witness ==
  /\ ui.cdpas_mode /\ ui.start_date > ui.end_date
  /\ out.kind = "stopped" /\ out.messages[1].level = "error"

(***************************************************************************)
(* C8  CDPAS proration.                                                    *)
(* In CDPAS mode total_calendar_days = (end - start).days + 1 and, with    *)
(* the week count not rounded, 7 * total_hours = hours_per_week *          *)
(* total_calendar_days and total_15min_units = 4 * total_hours; 10 days at *)
(* 40 hours per week give 400/7 hours, shown as 57.14.                     *)
(***************************************************************************)
C8_CdpasProration ==
  out.kind = "cdpas" =>
    /\ out.total_calendar_days = Span
    /\ RMul(RInt(7), out.weeks_in_span) = RInt(Span)
    /\ RMul(RInt(7), out.total_hours) = RMul(ui.hours_per_week, RInt(Span))
    /\ out.total_15min_units = RMul(RInt(4), out.total_hours)
    /\ (Span = 10 /\ ui.hours_per_week = RInt(40)) =>
         /\ out.total_hours = Rat(400, 7)
         /\ out.shown_weeks = 143
         /\ out.shown_total_hours = 5714

C8_Witness ==
  /\ out.kind = "cdpas"
  /\ Span = 10 /\ ui.hours_per_week = RInt(40)
  /\ out.shown_total_hours = 5714
  /\ out.total_15min_units = Rat(1600, 7)

(***************************************************************************)
(* C9  The two counting paths agree on the degenerate case.                *)
(* Alternating mode with Week A and Week B given the same non-empty        *)
(* selection and the same hours yields the matching days and final_total   *)
(* of single-pattern mode with that selection and hours, and for each      *)
(* selected weekday counts A + counts B is the closed-form count.          *)
(***************************************************************************)
C9_AlternatingWithEqualWeeksIsSingle ==
  (/\ out.kind = "alt"
   /\ ui.wds_A = ui.wds_B
   /\ ui.same_A = ui.same_B /\ ui.h_A = ui.h_B /\ ui.hrs_A_each = ui.hrs_B_each) =>
    LET single ==
          Script([ui EXCEPT !.alt_weeks_chk = FALSE,
                            !.selected_weekdays = ui.wds_A,
                            !.same_hours = ui.same_A,
                            !.hrs = ui.h_A,
                            !.hrs_each = ui.hrs_A_each])
    IN /\ single.kind = "single"
       /\ out.total_matching_days = single.total_matching_days
       /\ out.final_total = single.final_total
       /\ \A wd \in ui.wds_A :
            out.counts_AB["A"][wd] + out.counts_AB["B"][wd]
              = count_weekday(ui.start_date, ui.end_date, wd)

\* Both weeks Mon-Wed at 6 hours from Sunday 2023-12-31 to 2024-01-14: the
\* days fall in A, B and A again, 6 matching days, 36 hours.
C9_Witness ==
  /\ out.kind = "alt" /\ ui.unit_option = "Hourly"
  /\ ui.wds_A = 0 .. 2 /\ ui.wds_B = 0 .. 2
  /\ ~ui.same_A /\ ~ui.same_B
  /\ ui.hrs_A_each = MonWedSix /\ ui.hrs_B_each = MonWedSix
  /\ ui.start_date = FirstStart /\ ui.end_date = BaseDate + 13
  /\ out.total_days_A = 3 /\ out.total_days_B = 3
  /\ out.final_total = RInt(36)

(***************************************************************************)
(* C10  The breakdown adds up to the headline total.                       *)
(* In single-pattern mode the Converted totals of the rows (one per        *)
(* selected weekday) sum to final_total; in alternating mode the rows left *)
(* after suppressing those with zero count and zero converted total sum to *)
(* final_total, and every suppressed row has count 0 and converted 0.      *)
(***************************************************************************)
C10_BreakdownSumsToTotal ==
  /\ out.kind = "single" =>
       /\ SumRat(Converted(out.rows)) = out.final_total
       /\ \A k \in 1 .. Len(out.rows) :
            out.rows[k].Weekday = weekday_labels[Sorted(ui.selected_weekdays)[k] + 1]
  /\ out.kind = "alt" =>
       /\ SumRat(Converted(out.rows)) = out.final_total
       /\ \A k \in 1 .. 14 :
            LET r == out.all_rows[k] IN
            IF r.Count = 0 /\ r.Converted = Zero
            THEN \A j \in 1 .. Len(out.rows) : out.rows[j] # r
            ELSE \E j \in 1 .. Len(out.rows) : out.rows[j] = r

\* Per diem with Week A on Thu and Sun at the default hours (Sunday 0 hours)
\* over two weeks from a Monday: the Sunday row stays, with one per-diem.
C10_Witness ==
  /\ out.kind = "alt" /\ ui.unit_option = "Per diem"
  /\ ui.wds_A = {3, 6} /\ ~ui.same_A /\ ui.hrs_A_each = DefaultEach
  /\ ui.start_date = BaseDate /\ ui.end_date = BaseDate + 13
  /\ \E j \in 1 .. Len(out.rows) :
       /\ out.rows[j].Pattern = "A" /\ out.rows[j].Weekday = "Sun"
       /\ out.rows[j].Hours = Zero /\ out.rows[j].Converted = RInt(1)
  /\ Len(out.rows) < 14
  /\ out.final_total = RInt(out.total_days_A + out.total_days_B)

====
